---- MODULE Spec2Model ----
(***************************************************************************)
(* A model of the Ralph Wiggum loop (temporal-ralph-wiggum): the workflow  *)
(* RalphWorkflow.run of src/src/ralph_wiggum/workflows.py, the PRD model   *)
(* of src/src/ralph_wiggum/models.py and the rolling history window.       *)
(*                                                                         *)
(* Text is a sequence of tokens; the promise tag is the token sequence     *)
(* <promise> marker </promise>.  An optional PRD is a record with a        *)
(* `present` flag (None is NonePRD).  A Story is addressed by its position *)
(* in the plan (0 stands for None).                                        *)
(***************************************************************************)
EXTENDS Integers, Sequences, FiniteSets, TLC

VARIABLES
    input,                  \* the RalphWorkflowInput this execution was started from
    iteration,              \* self._iteration
    history,                \* self._history
    prd,                    \* self._prd
    progress_summary,       \* self._progress_summary
    current_tasks,          \* self._current_tasks
    history_window_size,    \* self._history_window_size
    pc,                     \* position of run()
    current_story,          \* local current_story of run(), as a position in the plan
    task_i,                 \* local i of the task loop (0-based as in the code)
    task_outputs,           \* local task_outputs of run()
    call,                   \* the activity call in flight, with its arguments
    attempt,                \* attempt number of the call in flight
    result,                 \* the RalphWorkflowOutput returned (valid when pc = "done")
    exec_log,               \* history variable: responses of all execute_task calls of the logical run
    eval_log,               \* history variable: the story evaluations of the logical run, in order
    select_log,             \* history variable: the stories selected, with the iteration, in order
    overall_count,          \* history variable: number of evaluate_overall_completion calls scheduled
    fn_args,                \* arguments of the pure function under check (function specifications)
    fn_result               \* its result (function specifications)

wfvars == <<input, iteration, history, prd, progress_summary, current_tasks,
            history_window_size, pc, current_story, task_i, task_outputs, call,
            attempt, result, exec_log, eval_log, select_log, overall_count>>
fnvars == <<fn_args, fn_result>>
vars == <<wfvars, fnvars>>

----------------------------------------------------------------------------
(* Bounds of the model *)

MaxIterations == 3
MaxStories == 2
MaxTasks == 2

(* Program constants *)

DefaultWindowSize == 3
MaximumAttempts == 3

----------------------------------------------------------------------------
(* Text *)

Min(a, b) == IF a < b THEN a ELSE b
Max(a, b) == IF a > b THEN a ELSE b

\* Python's `sub in s` on str: a contiguous, case-sensitive occurrence.
Contains(sub, s) ==
    \E k \in 0..(Len(s) - Len(sub)) : SubSeq(s, k + 1, k + Len(sub)) = sub

\* f"<promise>{input.completion_promise}</promise>"
PromiseTag(completion_promise) ==
    <<"<promise>">> \o completion_promise \o <<"</promise>">>

\* Mutant: the bare marker is searched for, without the tag.
PromiseDetected_BareMarker(final_response, completion_promise) ==
    Contains(completion_promise, final_response)

\* promise_tag in final_response
PromiseDetected(final_response, completion_promise) ==
    Contains(PromiseTag(completion_promise), final_response)

\* Python's s[start:] for a list.
PySliceFrom(s, start) ==
    LET n == Len(s)
        lo == IF start < 0 THEN Max(n + start, 0) ELSE Min(start, n)
    IN  SubSeq(s, lo + 1, n)

\* Mutant: the window is one entry too long.
RollingHistory_OneMore(h, k) == PySliceFrom(h, 0 - (k + 1))

\* self._history[-self._history_window_size:]
RollingHistory(h, k) == PySliceFrom(h, 0 - k)

----------------------------------------------------------------------------
(* PRD and Story *)

Statuses == {"pending", "in_progress", "completed"}

StoryIds == <<"story-1", "story-2", "story-3", "story-4", "story-5">>

NewStory(i) ==
    [id |-> StoryIds[i], title |-> StoryIds[i], description |-> StoryIds[i],
     status |-> "pending", completion_summary |-> <<>>]

NonePRD == [present |-> FALSE, stories |-> <<>>]
SomePRD(stories) == [present |-> TRUE, stories |-> stories]

RECURSIVE ScanIncomplete(_, _)
ScanIncomplete(stories, i) ==
    IF i > Len(stories) THEN 0
    ELSE IF stories[i].status # "completed" THEN i
    ELSE ScanIncomplete(stories, i + 1)

RECURSIVE ScanPending(_, _)
ScanPending(stories, i) ==
    IF i > Len(stories) THEN 0
    ELSE IF stories[i].status = "pending" THEN i
    ELSE ScanPending(stories, i + 1)

\* Mutant: only a pending story counts as incomplete.
GetNextIncomplete_PendingOnly(stories) == ScanPending(stories, 1)

RECURSIVE ScanIncompleteDown(_, _)
ScanIncompleteDown(stories, i) ==
    IF i < 1 THEN 0
    ELSE IF stories[i].status # "completed" THEN i
    ELSE ScanIncompleteDown(stories, i - 1)

\* Mutant: the scan runs from the last story to the first.
GetNextIncomplete_LastFirst(stories) == ScanIncompleteDown(stories, Len(stories))

\* PRD.get_next_incomplete: the position of the story returned, 0 for None.
GetNextIncomplete(stories) == ScanIncomplete(stories, 1)

RECURSIVE AllOf(_, _)
AllOf(stories, i) ==
    IF i > Len(stories) THEN TRUE
    ELSE IF stories[i].status = "completed" THEN AllOf(stories, i + 1)
    ELSE FALSE

\* Mutant: the emptiness test is missing.
AllComplete_NoEmptyTest(stories) == AllOf(stories, 1)

\* Mutant: one completed story is enough.
AllComplete_SomeCompleted(stories) ==
    \E i \in 1..Len(stories) : stories[i].status = "completed"

\* PRD.all_complete
AllComplete(stories) == Len(stories) > 0 /\ AllOf(stories, 1)

----------------------------------------------------------------------------
(* Inputs and results of the external calls *)

Marker == <<"O", "K">>
LowerMarker == <<"o", "k">>

\* generate_prd: a plan of n stories, all pending.
Plans == { SomePRD([i \in 1..n |-> NewStory(i)]) : n \in 0..MaxStories }

TaskNames == <<"task-1", "task-2", "task-3", "task-4">>

\* generate_tasks: a list of task dicts, all pending.
TaskBatches ==
    { [i \in 1..n |-> [content |-> TaskNames[i], status |-> "pending"]] : n \in 0..MaxTasks }

\* execute_task: the text of the n-th call of the logical run; the first call
\* may also answer with text that carries the promise tag.
PlainOutput(n) == <<"out">> \o [k \in 1..n |-> "#"]
ExecResponses(n) ==
    IF n = 1 THEN {PlainOutput(1), PlainOutput(1) \o PromiseTag(Marker)}
    ELSE {PlainOutput(n)}

\* progress_update of the n-th story evaluation of the logical run; the first
\* may also be text that carries the promise tag.
ProgressUpdates(n) ==
    IF n = 1 THEN { <<"worked">>, PromiseTag(Marker) } ELSE { <<"worked">> }

\* Mutant: the summary is the latest update alone.
UpdatedProgress_OnlyLatest(progress, update) == <<"- Iteration: ">> \o update

\* updated_progress as the evaluation activity builds it.
UpdatedProgress(progress, update) ==
    (IF progress # <<>> THEN progress \o <<"\n">> ELSE progress)
        \o <<"- Iteration: ">> \o update

\* EvaluateStoryOutput
EvaluateStoryResults(progress, n) ==
    { [is_complete |-> c, summary |-> <<"summary">>,
       updated_progress |-> UpdatedProgress(progress, u)] :
        c \in BOOLEAN, u \in ProgressUpdates(n) }

\* evaluate_overall_completion: free text.
OverallResponses ==
    { <<"All done! ">> \o PromiseTag(Marker),
      <<"All done! ">> \o Marker,
      PromiseTag(LowerMarker) }

MaxIterationsChoices == {-1} \cup (0..MaxIterations)
WindowSizes == {DefaultWindowSize}

FreshInputs ==
    { [prompt |-> "prompt", completion_promise |-> Marker, max_iterations |-> n,
       model |-> "model", history_window_size |-> w, current_iteration |-> 0,
       conversation_history |-> <<>>, prd |-> NonePRD, progress_summary |-> <<>>] :
        n \in MaxIterationsChoices, w \in WindowSizes }

NoCall == [name |-> "none"]
NoResult ==
    [completed |-> FALSE, iterations_used |-> 0, final_response |-> <<>>,
     completion_detected |-> FALSE]

AwaitPcs ==
    {"generate_prd", "generate_tasks", "execute_task", "evaluate_story", "evaluate_overall"}

----------------------------------------------------------------------------
(* The workflow *)

\* Mutant: the loop runs once more.
LoopCondition_Inclusive(it, max_iterations) == it <= max_iterations

\* while self._iteration < input.max_iterations
LoopCondition(it, max_iterations) == it < max_iterations

\* Mutant: the counter advances by two.
NextIteration_ByTwo(it) == it + 2

\* Mutant: the counter is not advanced.
NextIteration_Stuck(it) == it

\* self._iteration += 1
NextIteration(it) == it + 1

\* Mutant: the verdict is not looked at.
StoryAfterEvaluation_AlwaysCompleted(story, eval_result) ==
    [story EXCEPT !.status = "completed",
                  !.completion_summary = eval_result.summary]

\* Mutant: the summary of the evaluation is stored whatever the verdict.
StoryAfterEvaluation_SummaryAlways(story, eval_result) ==
    IF eval_result.is_complete
    THEN [story EXCEPT !.status = "completed",
                       !.completion_summary = eval_result.summary]
    ELSE [story EXCEPT !.completion_summary = eval_result.summary]

\* Mutant: a Story judged not complete goes back to pending.
StoryAfterEvaluation_BackToPending(story, eval_result) ==
    IF eval_result.is_complete
    THEN [story EXCEPT !.status = "completed",
                       !.completion_summary = eval_result.summary]
    ELSE [story EXCEPT !.status = "pending"]

\* The Story after its evaluation: completed, with its summary, on a complete
\* verdict; left as it is (in_progress) otherwise.
StoryAfterEvaluation(story, eval_result) ==
    IF eval_result.is_complete
    THEN [story EXCEPT !.status = "completed",
                       !.completion_summary = eval_result.summary]
    ELSE story

\* Mutant: a complete plan counts as a detected promise.
CompletedOutput_AlwaysDetected(it, final_response, completion_promise) ==
    [completed |-> TRUE,
     iterations_used |-> it,
     final_response |-> final_response,
     completion_detected |-> TRUE]

\* Mutant: the iteration under way is counted too.
CompletedOutput_OneMoreIteration(it, final_response, completion_promise) ==
    [completed |-> TRUE,
     iterations_used |-> it + 1,
     final_response |-> final_response,
     completion_detected |-> PromiseDetected(final_response, completion_promise)]

\* Mutant: completed is made to agree with the promise check.
CompletedOutput_CompletedIfDetected(it, final_response, completion_promise) ==
    [completed |-> PromiseDetected(final_response, completion_promise),
     iterations_used |-> it,
     final_response |-> final_response,
     completion_detected |-> PromiseDetected(final_response, completion_promise)]

\* The output of a run whose plan is complete.
CompletedOutput(it, final_response, completion_promise) ==
    [completed |-> TRUE,
     iterations_used |-> it,
     final_response |-> final_response,
     completion_detected |-> PromiseDetected(final_response, completion_promise)]

\* Mutant: a run that leaves the loop is reported completed whatever its plan.
BudgetExhaustedOutput_Completed(it, progress) ==
    [completed |-> TRUE,
     iterations_used |-> it,
     final_response |-> IF progress # <<>> THEN progress ELSE <<>>,
     completion_detected |-> FALSE]

\* Mutant: the promise check is run on the progress summary returned.
BudgetExhaustedOutput_TagChecked(it, progress) ==
    [completed |-> FALSE,
     iterations_used |-> it,
     final_response |-> IF progress # <<>> THEN progress ELSE <<>>,
     completion_detected |-> PromiseDetected(progress, Marker)]

\* The output of a run that left the loop with its plan not complete.
BudgetExhaustedOutput(it, progress) ==
    [completed |-> FALSE,
     iterations_used |-> it,
     final_response |-> IF progress # <<>> THEN progress ELSE <<>>,
     completion_detected |-> FALSE]

\* RalphWorkflow.__init__
FieldsAtConstruction ==
    /\ iteration = 0
    /\ history = <<>>
    /\ prd = NonePRD
    /\ progress_summary = <<>>
    /\ current_tasks = <<>>
    /\ history_window_size = DefaultWindowSize

FnIdle == fn_args = <<>> /\ fn_result = <<>>

Init ==
    /\ input \in FreshInputs
    /\ FieldsAtConstruction
    /\ pc = "start"
    /\ current_story = 0
    /\ task_i = 0
    /\ task_outputs = <<>>
    /\ call = NoCall
    /\ attempt = 0
    /\ result = NoResult
    /\ exec_log = <<>>
    /\ eval_log = <<>>
    /\ select_log = <<>>
    /\ overall_count = 0
    /\ FnIdle

\* input.prd and self._prd are one object once run() has assigned the one to
\* the other: a mutation of a Story of the plan shows in both.
InputAfterPlanMutation(newprd) ==
    IF input.prd.present THEN [input EXCEPT !.prd = newprd] ELSE input

\* Mutant: every execution generates a plan, given one or not.
NeedsPlan_Always(inp) == TRUE

\* if self._prd is None, after self._prd = input.prd
NeedsPlan(inp) == ~inp.prd.present

\* run(), from its entry to the first suspension point or to the loop.
Start ==
    /\ pc = "start"
    /\ iteration' = input.current_iteration
    /\ history' = input.conversation_history
    /\ prd' = input.prd
    /\ progress_summary' = input.progress_summary
    /\ history_window_size' = input.history_window_size
    /\ IF NeedsPlan(input)
       THEN /\ pc' = "generate_prd"
            /\ call' = [name |-> "generate_prd", prompt |-> input.prompt,
                        model |-> input.model]
            /\ attempt' = 1
       ELSE /\ pc' = "loop"
            /\ UNCHANGED <<call, attempt>>
    /\ UNCHANGED <<input, current_tasks, current_story, task_i, task_outputs, result,
                   exec_log, eval_log, select_log, overall_count, fnvars>>

\* generate_prd returns.
GeneratePrdReturns ==
    /\ pc = "generate_prd"
    /\ \E p \in Plans : prd' = p
    /\ pc' = "loop"
    /\ call' = NoCall
    /\ attempt' = 0
    /\ UNCHANGED <<input, iteration, history, progress_summary, current_tasks,
                   history_window_size, current_story, task_i, task_outputs, result,
                   exec_log, eval_log, select_log, overall_count, fnvars>>

\* The loop condition fails.
LoopExit ==
    /\ pc = "loop"
    /\ ~LoopCondition(iteration, input.max_iterations)
    /\ pc' = "finish"
    /\ UNCHANGED <<input, iteration, history, prd, progress_summary, current_tasks,
                   history_window_size, current_story, task_i, task_outputs, call,
                   attempt, result, exec_log, eval_log, select_log, overall_count, fnvars>>

\* Mutant: the continuation is given the rolling window, not the transcript.
ContinuationInput_WindowOnly ==
    [prompt |-> input.prompt,
     completion_promise |-> input.completion_promise,
     max_iterations |-> input.max_iterations,
     model |-> input.model,
     history_window_size |-> input.history_window_size,
     current_iteration |-> iteration,
     conversation_history |-> RollingHistory(history, history_window_size),
     prd |-> prd,
     progress_summary |-> progress_summary]

\* Mutant: the continuation starts with an empty progress summary.
ContinuationInput_FreshSummary ==
    [prompt |-> input.prompt,
     completion_promise |-> input.completion_promise,
     max_iterations |-> input.max_iterations,
     model |-> input.model,
     history_window_size |-> input.history_window_size,
     current_iteration |-> iteration,
     conversation_history |-> history,
     prd |-> prd,
     progress_summary |-> <<>>]

\* Mutant: the continuation starts its counter again from 0.
ContinuationInput_ResetsCounter ==
    [prompt |-> input.prompt,
     completion_promise |-> input.completion_promise,
     max_iterations |-> input.max_iterations,
     model |-> input.model,
     history_window_size |-> input.history_window_size,
     current_iteration |-> 0,
     conversation_history |-> history,
     prd |-> prd,
     progress_summary |-> progress_summary]

\* The RalphWorkflowInput handed to workflow.continue_as_new.
ContinuationInput ==
    [prompt |-> input.prompt,
     completion_promise |-> input.completion_promise,
     max_iterations |-> input.max_iterations,
     model |-> input.model,
     history_window_size |-> input.history_window_size,
     current_iteration |-> iteration,
     conversation_history |-> history,
     prd |-> prd,
     progress_summary |-> progress_summary]

\* Mutant: the suggestion of the host is followed at any await point too.
HandOffPoint_AnyAwait(p) == p \in ({"loop"} \cup AwaitPcs)

\* workflow.info().is_continue_as_new_suggested() is read at the top of the
\* loop body and nowhere else.
HandOffPoint(p) == p = "loop"

\* The host suggests continue-as-new: this execution ends and a new one, a
\* new RalphWorkflow instance, starts from the continuation input.
ContinueAsNew ==
    /\ HandOffPoint(pc)
    /\ LoopCondition(iteration, input.max_iterations)
    /\ input' = ContinuationInput
    /\ iteration' = 0
    /\ history' = <<>>
    /\ prd' = NonePRD
    /\ progress_summary' = <<>>
    /\ current_tasks' = <<>>
    /\ history_window_size' = DefaultWindowSize
    /\ pc' = "start"
    /\ current_story' = 0
    /\ task_i' = 0
    /\ task_outputs' = <<>>
    /\ UNCHANGED <<call, attempt, result, exec_log, eval_log, select_log,
                   overall_count, fnvars>>

\* Mutant: the window is taken before the response of the previous task is
\* appended.
ExecuteTaskCall_StaleWindow(tasks, i, story, h) ==
    [name |-> "execute_task",
     task_content |-> tasks[i + 1].content,
     original_prompt |-> input.prompt,
     story_context |-> <<story.title, story.description>>,
     history |-> RollingHistory(history, history_window_size),
     model |-> input.model,
     iteration |-> iteration,
     task_index |-> i,
     total_tasks |-> Len(tasks)]

\* The arguments of the execute_task call for task i (0-based).
ExecuteTaskCall(tasks, i, story, h) ==
    [name |-> "execute_task",
     task_content |-> tasks[i + 1].content,
     original_prompt |-> input.prompt,
     story_context |-> <<story.title, story.description>>,
     history |-> RollingHistory(h, history_window_size),
     model |-> input.model,
     iteration |-> iteration,
     task_index |-> i,
     total_tasks |-> Len(tasks)]

\* The arguments of the evaluate_story_completion call.
EvaluateStoryCall(story, outputs) ==
    [name |-> "evaluate_story_completion",
     story |-> story,
     task_outputs |-> outputs,
     original_prompt |-> input.prompt,
     progress_summary |-> progress_summary]

\* Phase 2 and the scheduling of generate_tasks.
SelectStory ==
    /\ pc = "loop"
    /\ LoopCondition(iteration, input.max_iterations)
    /\ LET s == GetNextIncomplete(prd.stories) IN
       IF s = 0
       THEN /\ pc' = "finish"
            /\ UNCHANGED <<input, prd, current_story, call, attempt, select_log>>
       ELSE LET newprd == [prd EXCEPT !.stories[s].status = "in_progress"] IN
            /\ prd' = newprd
            /\ input' = InputAfterPlanMutation(newprd)
            /\ current_story' = s
            /\ select_log' = Append(select_log, [story |-> s, iteration |-> iteration])
            /\ pc' = "generate_tasks"
            /\ call' = [name |-> "generate_tasks",
                        story |-> newprd.stories[s],
                        original_prompt |-> input.prompt,
                        progress_summary |-> progress_summary,
                        iteration |-> iteration]
            /\ attempt' = 1
    /\ UNCHANGED <<iteration, history, progress_summary, current_tasks,
                   history_window_size, task_i, task_outputs, result,
                   exec_log, eval_log, overall_count, fnvars>>

\* generate_tasks returns; Phase 4 starts (or, with no task, Phase 5).
GenerateTasksReturns ==
    /\ pc = "generate_tasks"
    /\ \E tasks \in TaskBatches :
        /\ task_outputs' = <<>>
        /\ task_i' = 0
        /\ IF Len(tasks) = 0
           THEN /\ current_tasks' = tasks
                /\ pc' = "evaluate_story"
                /\ call' = EvaluateStoryCall(prd.stories[current_story], <<>>)
           ELSE /\ current_tasks' = [tasks EXCEPT ![1].status = "in_progress"]
                /\ pc' = "execute_task"
                /\ call' = ExecuteTaskCall(tasks, 0, prd.stories[current_story], history)
    /\ attempt' = 1
    /\ UNCHANGED <<input, iteration, history, prd, progress_summary,
                   history_window_size, current_story, result,
                   exec_log, eval_log, select_log, overall_count, fnvars>>

\* Mutant: the transcript is cut down to the window before the append.
AppendResponse_ToWindow(h, response) ==
    Append(RollingHistory(h, DefaultWindowSize),
           [role |-> "assistant", content |-> response])

\* self._history.append({"role": "assistant", "content": response})
AppendResponse(h, response) == Append(h, [role |-> "assistant", content |-> response])

\* execute_task returns for task i; the next task starts, or Phase 5.
ExecuteTaskReturns ==
    /\ pc = "execute_task"
    /\ \E response \in ExecResponses(Len(exec_log) + 1) :
        LET done == [current_tasks EXCEPT ![task_i + 1].status = "completed"]
            outs == Append(task_outputs, response)
            h    == AppendResponse(history, response)
        IN
        /\ task_outputs' = outs
        /\ history' = h
        /\ exec_log' = Append(exec_log, response)
        /\ IF task_i + 1 < Len(current_tasks)
           THEN /\ task_i' = task_i + 1
                /\ current_tasks' = [done EXCEPT ![task_i + 2].status = "in_progress"]
                /\ pc' = "execute_task"
                /\ call' = ExecuteTaskCall(done, task_i + 1, prd.stories[current_story], h)
           ELSE /\ task_i' = task_i
                /\ current_tasks' = done
                /\ pc' = "evaluate_story"
                /\ call' = EvaluateStoryCall(prd.stories[current_story], outs)
    /\ attempt' = 1
    /\ UNCHANGED <<input, iteration, prd, progress_summary, history_window_size,
                   current_story, result, eval_log, select_log, overall_count, fnvars>>

\* evaluate_story_completion returns; the iteration ends.
EvaluateStoryReturns ==
    /\ pc = "evaluate_story"
    /\ \E eval_result \in EvaluateStoryResults(call.progress_summary, Len(eval_log) + 1) :
        LET newprd ==
                [prd EXCEPT !.stories[current_story] =
                                StoryAfterEvaluation(prd.stories[current_story], eval_result)]
        IN
        /\ prd' = newprd
        /\ input' = InputAfterPlanMutation(newprd)
        /\ progress_summary' = eval_result.updated_progress
        /\ eval_log' = Append(eval_log, [story |-> current_story,
                                        is_complete |-> eval_result.is_complete,
                                        outputs |-> Len(call.task_outputs),
                                        progress |-> eval_result.updated_progress])
    /\ iteration' = NextIteration(iteration)
    /\ pc' = "loop"
    /\ call' = NoCall
    /\ attempt' = 0
    /\ UNCHANGED <<history, current_tasks, history_window_size, current_story, task_i,
                   task_outputs, result, exec_log, select_log, overall_count, fnvars>>

\* Phase 6: after the loop.
Finish ==
    /\ pc = "finish"
    /\ IF prd.present /\ AllComplete(prd.stories)
       THEN /\ pc' = "evaluate_overall"
            /\ call' = [name |-> "evaluate_overall_completion",
                        prd |-> prd,
                        original_prompt |-> input.prompt,
                        completion_promise |-> input.completion_promise]
            /\ attempt' = 1
            /\ overall_count' = overall_count + 1
            /\ UNCHANGED result
       ELSE /\ pc' = "done"
            /\ result' = BudgetExhaustedOutput(iteration, progress_summary)
            /\ UNCHANGED <<call, attempt, overall_count>>
    /\ UNCHANGED <<input, iteration, history, prd, progress_summary, current_tasks,
                   history_window_size, current_story, task_i, task_outputs,
                   exec_log, eval_log, select_log, fnvars>>

\* evaluate_overall_completion returns; run() returns.
EvaluateOverallReturns ==
    /\ pc = "evaluate_overall"
    /\ \E final_response \in OverallResponses :
        result' = CompletedOutput(iteration, final_response, input.completion_promise)
    /\ pc' = "done"
    /\ call' = NoCall
    /\ attempt' = 0
    /\ UNCHANGED <<input, iteration, history, prd, progress_summary, current_tasks,
                   history_window_size, current_story, task_i, task_outputs,
                   exec_log, eval_log, select_log, overall_count, fnvars>>

\* Mutant: the policy allows one attempt more.
RetryAllowed_OneMore(a) == a <= MaximumAttempts

\* RetryPolicy(maximum_attempts=3): a failed attempt is retried unless it was
\* the last one allowed.
RetryAllowed(a) == a < MaximumAttempts

\* An attempt of the call in flight fails: the host retries it, up to
\* maximum_attempts; after the last attempt the failure ends the run.
ActivityAttemptFails ==
    /\ pc \in AwaitPcs
    /\ IF RetryAllowed(attempt)
       THEN /\ attempt' = attempt + 1
            /\ UNCHANGED <<pc, call>>
       ELSE /\ pc' = "failed"
            /\ call' = NoCall
            /\ attempt' = 0
    /\ UNCHANGED <<input, iteration, history, prd, progress_summary, current_tasks,
                   history_window_size, current_story, task_i, task_outputs, result,
                   exec_log, eval_log, select_log, overall_count, fnvars>>

Next ==
    \/ Start
    \/ GeneratePrdReturns
    \/ LoopExit
    \/ ContinueAsNew
    \/ SelectStory
    \/ GenerateTasksReturns
    \/ ExecuteTaskReturns
    \/ EvaluateStoryReturns
    \/ Finish
    \/ EvaluateOverallReturns
    \/ ActivityAttemptFails

Spec == Init /\ [][Next]_vars

----------------------------------------------------------------------------
(* Specifications of the pure functions: the arguments are drawn in the     *)
(* initial state and one step applies the function.                         *)

MaxPlanLen == 4
MaxMarkerLen == 2
MaxResponseLen == 4
MaxHistoryLen == 4
MaxWindow == 4

\* The workflow does not run in these specifications.
WfIdle ==
    /\ input = [prompt |-> "prompt", completion_promise |-> Marker,
                max_iterations |-> 0, model |-> "model",
                history_window_size |-> DefaultWindowSize, current_iteration |-> 0,
                conversation_history |-> <<>>, prd |-> NonePRD,
                progress_summary |-> <<>>]
    /\ FieldsAtConstruction
    /\ current_story = 0
    /\ task_i = 0
    /\ task_outputs = <<>>
    /\ call = NoCall
    /\ attempt = 0
    /\ result = NoResult
    /\ exec_log = <<>>
    /\ eval_log = <<>>
    /\ select_log = <<>>
    /\ overall_count = 0

wfrest == <<input, iteration, history, prd, progress_summary, current_tasks,
            history_window_size, current_story, task_i, task_outputs, call,
            attempt, result, exec_log, eval_log, select_log, overall_count>>

SeqsUpTo(S, n) == UNION { [1..k -> S] : k \in 0..n }

\* Every plan of up to MaxPlanLen stories, under every assignment of statuses.
AnyPlans ==
    { [i \in 1..Len(st) |-> [NewStory(i) EXCEPT !.status = st[i]]] :
        st \in SeqsUpTo(Statuses, MaxPlanLen) }

InitPRD ==
    /\ WfIdle
    /\ pc = "prd"
    /\ fn_args \in AnyPlans
    /\ fn_result = <<>>

ApplyPRD ==
    /\ pc = "prd"
    /\ pc' = "prd_done"
    /\ fn_result' = [next_incomplete |-> GetNextIncomplete(fn_args),
                     all_complete |-> AllComplete(fn_args)]
    /\ UNCHANGED <<wfrest, fn_args>>

SpecPRD == InitPRD /\ [][ApplyPRD]_vars

\* Markers and responses over a small alphabet with one letter in both cases.
MarkerLetters == {"O", "o"}
ResponseTokens == {"<promise>", "</promise>", "O", "o", " "}

InitTag ==
    /\ WfIdle
    /\ pc = "tag"
    /\ fn_args \in [completion_promise : SeqsUpTo(MarkerLetters, MaxMarkerLen),
                    final_response : SeqsUpTo(ResponseTokens, MaxResponseLen)]
    /\ fn_result = <<>>

ApplyTag ==
    /\ pc = "tag"
    /\ pc' = "tag_done"
    /\ fn_result' = [completion_detected |->
                        PromiseDetected(fn_args.final_response, fn_args.completion_promise)]
    /\ UNCHANGED <<wfrest, fn_args>>

SpecTag == InitTag /\ [][ApplyTag]_vars

HistoryEntries == { [role |-> "assistant", content |-> c] : c \in {"a", "b"} }

InitWindow ==
    /\ WfIdle
    /\ pc = "window"
    /\ fn_args \in [history : SeqsUpTo(HistoryEntries, MaxHistoryLen),
                    history_window_size : 0..MaxWindow]
    /\ fn_result = <<>>

ApplyWindow ==
    /\ pc = "window"
    /\ pc' = "window_done"
    /\ fn_result' = [window |-> RollingHistory(fn_args.history, fn_args.history_window_size),
                     history |-> fn_args.history]
    /\ UNCHANGED <<wfrest, fn_args>>

SpecWindow == InitWindow /\ [][ApplyWindow]_vars

----------------------------------------------------------------------------
(* Claims about the pure functions *)

\* C3: get_next_incomplete returns the first Story, in declaration order,
\* whose status is not "completed" (pending or in_progress alike), and None
\* exactly when there is no such Story.
C3_NextIncompleteIsFirstNotCompleted ==
    pc = "prd_done" =>
        LET p == fn_args
            r == fn_result.next_incomplete
        IN  /\ r \in 0..Len(p)
            /\ (r = 0) <=> (\A i \in 1..Len(p) : p[i].status = "completed")
            /\ r # 0 =>
                /\ p[r].status \in {"pending", "in_progress"}
                /\ \A j \in 1..(r - 1) : p[j].status = "completed"

C3_Witness ==
    /\ pc = "prd_done"
    /\ Len(fn_args) = 3
    /\ fn_args[1].status = "completed"
    /\ fn_args[2].status = "in_progress"
    /\ fn_args[3].status = "pending"
    /\ fn_result.next_incomplete = 2

\* C4: all_complete is true iff the plan has at least one Story and every
\* Story is "completed"; it is false for the empty plan, the one plan on
\* which it disagrees with "get_next_incomplete() is None".
C4_AllCompleteIffNonEmptyAndAllCompleted ==
    pc = "prd_done" =>
        LET p == fn_args
            done == { i \in 1..Len(p) : p[i].status = "completed" }
        IN  /\ fn_result.all_complete <=> (Len(p) >= 1 /\ Cardinality(done) = Len(p))
            /\ Len(p) = 0 => (~fn_result.all_complete /\ fn_result.next_incomplete = 0)
            /\ Len(p) > 0 => (fn_result.all_complete <=> fn_result.next_incomplete = 0)

C4_Witness ==
    /\ pc = "prd_done"
    /\ fn_args = <<>>
    /\ fn_result.all_complete = FALSE
    /\ fn_result.next_incomplete = 0

\* The response holds, token for token, <promise>, the marker and </promise>
\* one right after the other.
HasExactTag(response, marker) ==
    \E i \in 1..Len(response) :
        /\ response[i] = "<promise>"
        /\ i + Len(marker) + 1 <= Len(response)
        /\ \A j \in 1..Len(marker) : response[i + j] = marker[j]
        /\ response[i + Len(marker) + 1] = "</promise>"

\* C7: the completion check is true when the response holds the contiguous,
\* case-sensitive <promise>M</promise>, and false otherwise: the marker as
\* bare text, in another letter case, or with extra characters inside the tag.
C7_ExactMatch ==
    pc = "tag_done" =>
        LET r == fn_args.final_response
            m == fn_args.completion_promise
        IN  /\ fn_result.completion_detected <=> HasExactTag(r, m)
            /\ (\A i \in 1..Len(r) : r[i] # "<promise>") => ~fn_result.completion_detected

C7_Witness ==
    /\ pc = "tag_done"
    /\ fn_args.completion_promise = <<"O">>
    /\ fn_args.final_response = <<"<promise>", "o", "</promise>", "O">>
    /\ fn_result.completion_detected = FALSE

\* C10, as claimed: the rolling window is the last min(K, length) entries of
\* the transcript, so it never holds more than K entries and is empty for K = 0.
C10_WindowIsLastK ==
    pc = "window_done" =>
        LET h == fn_args.history
            k == fn_args.history_window_size
            m == Min(k, Len(h))
        IN  /\ fn_result.window = SubSeq(h, Len(h) - m + 1, Len(h))
            /\ Len(fn_result.window) <= k

----------------------------------------------------------------------------
(* Claims about the run *)

NoCompleteVerdict == \A j \in 1..Len(eval_log) : ~eval_log[j].is_complete
OnlyCompleteVerdicts == \A j \in 1..Len(eval_log) : eval_log[j].is_complete

BudgetOutcome ==
    /\ result.iterations_used = input.max_iterations
    /\ result.completed = FALSE
    /\ result.completion_detected = FALSE

\* C1, as claimed: for every max_iterations = N, a run whose story evaluator
\* never returns a complete verdict ends with iterations_used = N,
\* completed = false and completion_detected = false.
C1_BudgetForEveryRun ==
    (pc = "done" /\ NoCompleteVerdict) => BudgetOutcome

\* C1, amended: the same for N >= 0 and a plan of at least one Story.
C1_BudgetWithNonEmptyPlan ==
    (/\ pc = "done"
     /\ NoCompleteVerdict
     /\ input.max_iterations >= 0
     /\ Len(prd.stories) >= 1) => BudgetOutcome

C1_Witness ==
    /\ pc = "done"
    /\ input.max_iterations = 3
    /\ Len(eval_log) = 3
    /\ NoCompleteVerdict
    /\ result.iterations_used = 3
    /\ result.completed = FALSE

\* C2: a Story evaluated incomplete K times and then complete is selected in
\* exactly K+1 consecutive iterations, no later Story is selected before its
\* complete verdict, and the counter advances by exactly K+1 over them.
C2_RetrySameStory ==
    /\ Len(eval_log) <= Len(select_log)
    /\ \A j \in 1..Len(eval_log) : select_log[j].story = eval_log[j].story
    /\ \A j \in 1..Len(select_log) :
        \A earlier \in 1..(select_log[j].story - 1) :
            \E c \in 1..(j - 1) :
                eval_log[c].story = earlier /\ eval_log[c].is_complete
    /\ \A c \in 1..Len(eval_log) :
        eval_log[c].is_complete =>
            LET s == eval_log[c].story
                K == Cardinality({ j \in 1..Len(eval_log) :
                                     eval_log[j].story = s /\ ~eval_log[j].is_complete })
                selected == { j \in 1..Len(select_log) : select_log[j].story = s }
                first == select_log[c - K].iteration
            IN  /\ selected = (c - K)..c
                /\ \A j \in selected : select_log[j].iteration = first + (j - (c - K))
                /\ c < Len(select_log) =>
                       /\ select_log[c + 1].story > s
                       /\ select_log[c + 1].iteration = first + K + 1
                /\ (pc = "done" /\ c = Len(eval_log)) =>
                       result.iterations_used = first + K + 1

C2_Witness ==
    /\ pc = "done"
    /\ Len(eval_log) = 3
    /\ eval_log[1].story = 1 /\ ~eval_log[1].is_complete
    /\ eval_log[2].story = 1 /\ ~eval_log[2].is_complete
    /\ eval_log[3].story = 1 /\ eval_log[3].is_complete
    /\ Len(select_log) = 3
    /\ result.iterations_used = 3
    /\ result.completed = TRUE

OverallCallSeesAllCompleted ==
    pc = "evaluate_overall" =>
        /\ call.name = "evaluate_overall_completion"
        /\ Len(call.prd.stories) = Len(prd.stories)
        /\ \A i \in 1..Len(call.prd.stories) : call.prd.stories[i].status = "completed"

FirstPassOutcome ==
    /\ result.completed = TRUE
    /\ result.iterations_used = Len(prd.stories)
    /\ overall_count = 1

\* C5, as claimed: for a plan of n Stories, each judged complete at its first
\* evaluation, n <= max_iterations, the run returns completed = true and
\* iterations_used = n, and the single overall evaluation sees n completed Stories.
C5_FirstPassForEveryPlan ==
    /\ OverallCallSeesAllCompleted
    /\ (/\ pc = "done"
        /\ OnlyCompleteVerdicts
        /\ Len(prd.stories) <= input.max_iterations) => FirstPassOutcome

\* C5, amended: the same for a plan of n >= 1 Stories.
C5_FirstPassWithNonEmptyPlan ==
    /\ OverallCallSeesAllCompleted
    /\ (/\ pc = "done"
        /\ OnlyCompleteVerdicts
        /\ Len(prd.stories) >= 1
        /\ Len(prd.stories) <= input.max_iterations) => FirstPassOutcome

C5_Witness ==
    /\ pc = "done"
    /\ Len(prd.stories) = 2
    /\ Len(eval_log) = 2
    /\ OnlyCompleteVerdicts
    /\ result.completed = TRUE
    /\ result.iterations_used = 2
    /\ overall_count = 1

\* One Story, and one WorkItem in its first iteration.
SingleStepPlan ==
    /\ Len(prd.stories) = 1
    /\ Len(eval_log) >= 1
    /\ eval_log[1].outputs = 1

FirstExecutorAnswerTagged ==
    /\ Len(exec_log) >= 1
    /\ HasExactTag(exec_log[1], input.completion_promise)

ScenarioAOutcome ==
    /\ result.completed = TRUE
    /\ result.completion_detected = TRUE
    /\ result.iterations_used = 1

\* C6, as claimed: with a single-step plan, an executor whose first answer
\* holds the exact tag makes the run return completed = true,
\* completion_detected = true, iterations_used = 1.
C6_ExecutorTagCompletesRun ==
    (pc = "done" /\ SingleStepPlan /\ FirstExecutorAnswerTagged) => ScenarioAOutcome

\* C6, amended: with a plan of one Story, a complete verdict at the first
\* story evaluation and an overall evaluation whose answer holds the exact
\* tag make the run return completed = true, completion_detected = true,
\* iterations_used = 1.
C6_EvaluatorsCompleteRun ==
    (/\ pc = "done"
     /\ Len(prd.stories) = 1
     /\ Len(eval_log) >= 1
     /\ eval_log[1].is_complete
     /\ HasExactTag(result.final_response, input.completion_promise)) => ScenarioAOutcome

C6_Witness ==
    /\ pc = "done"
    /\ SingleStepPlan
    /\ FirstExecutorAnswerTagged
    /\ eval_log[1].is_complete
    /\ HasExactTag(result.final_response, input.completion_promise)
    /\ ScenarioAOutcome

C9_WindowOfNthCall ==
    (pc = "execute_task" /\ history_window_size = 3) =>
        LET N == Len(exec_log) + 1
            m == Min(N - 1, 3)
        IN  /\ Len(call.history) = m
            /\ \A j \in 1..m :
                call.history[j] =
                    [role |-> "assistant", content |-> exec_log[N - 1 - m + j]]

C9_Witness ==
    /\ pc = "execute_task"
    /\ history_window_size = 3
    /\ Len(exec_log) = 4
    /\ Len(call.history) = 3
    /\ call.history[3].content = exec_log[4]

----------------------------------------------------------------------------
(* Story order, the final evaluation and the two fields of the output *)

InProgress(stories) == { i \in 1..Len(stories) : stories[i].status = "in_progress" }

\* C11: in every reachable state of a run whose plan was produced with all
\* Stories pending, at most one Story has status in_progress.
C11_AtMostOneInProgress ==
    /\ Cardinality(InProgress(prd.stories)) <= 1
    /\ Cardinality(InProgress(input.prd.stories)) <= 1

C11_Witness ==
    /\ pc = "execute_task"
    /\ Len(prd.stories) = 2
    /\ InProgress(prd.stories) = {2}
    /\ prd.stories[1].status = "completed"

IterationPcs == {"generate_tasks", "execute_task", "evaluate_story"}

\* The Story the call in flight was given.
CallIsForStory(story) ==
    CASE pc = "generate_tasks" -> call.name = "generate_tasks" /\ call.story = story
      [] pc = "execute_task"   ->
            /\ call.name = "execute_task"
            /\ call.story_context = <<story.title, story.description>>
      [] pc = "evaluate_story" ->
            call.name = "evaluate_story_completion" /\ call.story = story
      [] OTHER -> FALSE

\* C12: Stories are worked in declaration order: while an iteration works on
\* the Story it selected, every Story declared before it is completed and
\* every Story declared after it is still pending, and the generate_tasks
\* call, every execute_task call and the evaluate_story_completion call of the
\* iteration are given that Story and no other.
C12_DeclarationOrder ==
    pc \in IterationPcs =>
        /\ current_story \in 1..Len(prd.stories)
        /\ select_log[Len(select_log)] =
                [story |-> current_story, iteration |-> iteration]
        /\ \A j \in 1..(current_story - 1) : prd.stories[j].status = "completed"
        /\ prd.stories[current_story].status = "in_progress"
        /\ \A j \in (current_story + 1)..Len(prd.stories) :
                prd.stories[j].status = "pending"
        /\ CallIsForStory(prd.stories[current_story])
        /\ \A j \in 1..Len(prd.stories) :
                j # current_story => ~CallIsForStory(prd.stories[j])

C12_Witness ==
    /\ pc = "evaluate_story"
    /\ Len(prd.stories) = 2
    /\ current_story = 2
    /\ Len(select_log) = 3
    /\ select_log[1].story = 1
    /\ select_log[2].story = 1
    /\ Len(call.task_outputs) = 2

EveryStoryCompleted(stories) ==
    /\ Len(stories) > 0
    /\ \A i \in 1..Len(stories) : stories[i].status = "completed"

\* C13: the overall evaluation is invoked exactly once in a run that ends
\* with every Story of a non-empty plan completed, only after the last Story
\* became completed, and never in a run that ends with a Story not completed.
C13_OverallEvaluationOnce ==
    /\ overall_count <= 1
    /\ overall_count = 1 =>
            /\ EveryStoryCompleted(prd.stories)
            /\ pc \in {"evaluate_overall", "done", "failed"}
    /\ pc = "evaluate_overall" => overall_count = 1
    /\ pc = "done" =>
            IF EveryStoryCompleted(prd.stories)
            THEN overall_count = 1
            ELSE overall_count = 0

C13_Witness ==
    /\ pc = "done"
    /\ overall_count = 1
    /\ Len(prd.stories) = 2
    /\ Len(eval_log) = 3
    /\ eval_log[3].is_complete

\* C14: completed in the output is true exactly when every Story of a
\* non-empty plan is completed at exit, and false when the run left the loop
\* with its plan not complete, the case where the last Story is judged
\* complete in the iteration that brings the counter to max_iterations
\* included.
C14_CompletedIffPlanComplete ==
    pc = "done" => (result.completed <=> EveryStoryCompleted(prd.stories))

C14_Witness ==
    /\ pc = "done"
    /\ result.completed = TRUE
    /\ input.max_iterations = 3
    /\ result.iterations_used = input.max_iterations
    /\ Len(prd.stories) = 2
    /\ ~eval_log[2].is_complete
    /\ eval_log[3].is_complete

\* C15: when every Story is completed and the response of the overall
\* evaluation does not hold <promise>marker</promise>, the run ends with
\* completed = true and completion_detected = false, after the one overall
\* evaluation and with no further iteration.
C15_DisagreementSurfaced ==
    (/\ pc = "done"
     /\ EveryStoryCompleted(prd.stories)
     /\ ~HasExactTag(result.final_response, input.completion_promise)) =>
        /\ result.completed = TRUE
        /\ result.completion_detected = FALSE
        /\ result.iterations_used = Len(eval_log)
        /\ overall_count = 1

C15_Witness ==
    /\ pc = "done"
    /\ EveryStoryCompleted(prd.stories)
    /\ result.final_response = <<"All done! ">> \o Marker
    /\ result.completed = TRUE
    /\ result.completion_detected = FALSE

----------------------------------------------------------------------------
(* Continue-as-new, failed calls, empty task lists *)

\* A step that ends this execution and starts its continuation.
HandOff == pc = "loop" /\ pc' = "start"

\* C16: the continuation input has the prompt, completion marker,
\* max_iterations, model and window size of the current input, and its
\* current_iteration, conversation_history (the whole transcript), prd and
\* progress_summary are the live values of the workflow at the hand-off.
C16_ContinuationCarriesLiveState ==
    [][HandOff =>
        /\ input'.prompt = input.prompt
        /\ input'.completion_promise = input.completion_promise
        /\ input'.max_iterations = input.max_iterations
        /\ input'.model = input.model
        /\ input'.history_window_size = input.history_window_size
        /\ input'.current_iteration = iteration
        /\ input'.conversation_history = history
        /\ input'.prd = prd
        /\ input'.progress_summary = progress_summary
        /\ DOMAIN input' = DOMAIN input]_vars

C16_Witness ==
    /\ pc = "start"
    /\ input.current_iteration = 2
    /\ Len(input.conversation_history) = 4
    /\ Len(input.conversation_history) > input.history_window_size
    /\ input.prd.present
    /\ input.prd.stories[1].status = "completed"
    /\ input.progress_summary # <<>>

\* A step in which an attempt of the call in flight failed and is retried.
Retried == pc \in AwaitPcs /\ pc' = pc /\ call' = call /\ attempt' = attempt + 1

\* C17: each external call is attempted at most 3 times; when the last
\* attempt of a call fails the run ends in failure, with no output and no
\* further call; a failed attempt that is retried changes nothing but the
\* count of attempts, so the run goes on from a successful attempt as if none
\* had failed.
C17_ThreeAttemptsThenFailure ==
    [][/\ pc \in AwaitPcs => attempt \in 1..3
       /\ attempt' <= 3
       /\ pc' \in AwaitPcs => (attempt' \in 1..3 /\ call' # NoCall)
       /\ pc' \notin AwaitPcs => (attempt' = 0 /\ call' = NoCall)
       /\ (pc \in AwaitPcs /\ attempt' > 1) =>
            (Retried /\ UNCHANGED <<input, iteration, history, prd, progress_summary,
                                    current_tasks, history_window_size, current_story,
                                    task_i, task_outputs, result, exec_log, eval_log,
                                    select_log, overall_count>>)
       /\ pc' = "failed" => (pc \in AwaitPcs /\ attempt = 3 /\ result' = NoResult)
       /\ pc # "failed"]_vars

C17_Witness ==
    /\ pc = "failed"
    /\ result = NoResult
    /\ call = NoCall
    /\ Len(eval_log) = 1
    /\ Len(exec_log) = 3

\* C18: an empty task list returned by generate_tasks ends the run as a
\* failed call: the evaluator is never called with no task output, and no
\* iteration is counted for an evaluation made on no task output.
C18_EmptyTaskListIsFatal ==
    /\ pc \in {"execute_task", "evaluate_story"} => Len(current_tasks) >= 1
    /\ pc = "evaluate_story" => Len(call.task_outputs) >= 1
    /\ \A j \in 1..Len(eval_log) : eval_log[j].outputs >= 1

----------------------------------------------------------------------------
(* Queries: a run during which a client asks the workflow for its state.    *)
(* A handler runs to its end between two steps of run(); fn_args holds the  *)
(* query being answered and fn_result its answer until the client has it.   *)

MaxQueryIterations == 2

QueryNames ==
    {"get_current_iteration", "get_history", "get_prd", "get_progress_summary",
     "get_current_story", "get_current_tasks"}

\* The points of a run at which a query finds it: awaiting an activity, or
\* returned.
QueryPcs == AwaitPcs \cup {"done"}

\* What each handler returns; an Optional[Story] is a sequence of at most one
\* story.
QueryAnswer(q) ==
    CASE q = "get_current_iteration" -> iteration
      [] q = "get_history"           -> history
      [] q = "get_prd"               -> prd
      [] q = "get_progress_summary"  -> progress_summary
      [] q = "get_current_story"     ->
            IF prd.present /\ GetNextIncomplete(prd.stories) # 0
            THEN <<prd.stories[GetNextIncomplete(prd.stories)]>>
            ELSE <<>>
      [] q = "get_current_tasks"     -> current_tasks

\* Mutant: get_history cuts the transcript down to the window it returns.
QueryHandled_TruncatesHistory ==
    /\ pc \in QueryPcs
    /\ fn_args = <<>>
    /\ \E q \in QueryNames :
        /\ fn_args' = <<q>>
        /\ fn_result' = <<QueryAnswer(q)>>
        /\ history' = IF q = "get_history"
                      THEN RollingHistory(history, history_window_size)
                      ELSE history
    /\ UNCHANGED <<input, iteration, prd, progress_summary, current_tasks,
                   history_window_size, pc, current_story, task_i, task_outputs,
                   call, attempt, result, exec_log, eval_log, select_log,
                   overall_count>>

\* A query handler runs: it reads one field and assigns none.
QueryHandled ==
    /\ pc \in QueryPcs
    /\ fn_args = <<>>
    /\ \E q \in QueryNames :
        /\ fn_args' = <<q>>
        /\ fn_result' = <<QueryAnswer(q)>>
    /\ UNCHANGED wfvars

\* The answer reaches the client.
QueryAnswered ==
    /\ pc \in QueryPcs
    /\ fn_args # <<>>
    /\ fn_args' = <<>>
    /\ fn_result' = <<>>
    /\ UNCHANGED wfvars

InitQueries ==
    /\ Init
    /\ input.max_iterations \in 0..MaxQueryIterations

\* A step of run(), taken when no handler is running.
RunStep == fn_args = <<>> /\ Next

NextQueries ==
    \/ RunStep
    \/ QueryHandled
    \/ QueryAnswered

SpecQueries == InitQueries /\ [][NextQueries]_vars

\* A step in which a query handler ran.
QueryStep == fn_args = <<>> /\ fn_args' # <<>>

\* C19: each of the six query handlers, answered while the run awaits an
\* activity or after it returned, leaves the iteration counter, the
\* transcript, the plan with every Story status, the progress summary and the
\* task list as they were, and with them the input, the call in flight, the
\* position of run() and its output.
C19_QueriesChangeNothing ==
    [][QueryStep =>
        /\ fn_args'[1] \in QueryNames
        /\ iteration' = iteration
        /\ history' = history
        /\ prd' = prd
        /\ progress_summary' = progress_summary
        /\ current_tasks' = current_tasks
        /\ history_window_size' = history_window_size
        /\ input' = input
        /\ pc' = pc
        /\ call' = call
        /\ attempt' = attempt
        /\ result' = result
        /\ <<current_story, task_i, task_outputs>>' =
                <<current_story, task_i, task_outputs>>]_vars

C19_Witness ==
    /\ pc = "evaluate_story"
    /\ fn_args = <<"get_history">>
    /\ Len(history) = 4
    /\ fn_result = <<history>>
    /\ Len(RollingHistory(history, history_window_size)) < Len(history)

----------------------------------------------------------------------------
(* The life of a Story *)

\* The Stories of the run: those of the plan of the workflow, or, before a
\* continuation has restored it, those of the plan of its input.
PlanStories == IF pc = "start" THEN input.prd.stories ELSE prd.stories

StatusRank(status) ==
    CASE status = "pending"     -> 0
      [] status = "in_progress" -> 1
      [] status = "completed"   -> 2

\* C20: the status of a Story only moves pending -> in_progress -> completed;
\* once a Story is completed its status and completion_summary never change,
\* and the Story an iteration selects, plans, executes or evaluates is never a
\* completed one.
C20_StoryStatusMonotone ==
    [][/\ Len(PlanStories') >= Len(PlanStories)
       /\ \A i \in 1..Len(PlanStories) :
            /\ PlanStories'[i].id = PlanStories[i].id
            /\ StatusRank(PlanStories'[i].status) >= StatusRank(PlanStories[i].status)
            /\ StatusRank(PlanStories'[i].status) <= StatusRank(PlanStories[i].status) + 1
            /\ PlanStories[i].status = "completed" => PlanStories'[i] = PlanStories[i]
            /\ PlanStories[i].status # "completed" =>
                    PlanStories[i].completion_summary = <<>>
       /\ pc \in IterationPcs =>
            /\ prd.stories[current_story].status # "completed"
            /\ pc \in {"generate_tasks", "evaluate_story"} =>
                    /\ call.story.id = prd.stories[current_story].id
                    /\ call.story.status # "completed"
            /\ pc = "execute_task" =>
                    call.story_context = <<prd.stories[current_story].title,
                                           prd.stories[current_story].description>>
       /\ Len(select_log') > Len(select_log) =>
            PlanStories[select_log'[Len(select_log')].story].status # "completed"
       /\ Len(eval_log') > Len(eval_log) =>
            PlanStories[eval_log'[Len(eval_log')].story].status # "completed"]_vars

C20_Witness ==
    /\ pc = "execute_task"
    /\ Len(prd.stories) = 2
    /\ prd.stories[1].status = "completed"
    /\ prd.stories[1].completion_summary # <<>>
    /\ prd.stories[2].status = "in_progress"
    /\ Len(eval_log) = 2
    /\ ~eval_log[1].is_complete
    /\ eval_log[2].story = 1

----------------------------------------------------------------------------
(* The counter, the progress summary and the transcript *)

\* The fields of the run: those of the workflow, or, before an execution has
\* restored them, those of its input.
LiveIteration == IF pc = "start" THEN input.current_iteration ELSE iteration
LiveHistory == IF pc = "start" THEN input.conversation_history ELSE history
LiveProgress == IF pc = "start" THEN input.progress_summary ELSE progress_summary

\* C21: the iteration counter is incremented once per execution of the loop
\* body, after the story evaluation returns and whatever the number of tasks
\* executed: at any time it is the starting iteration, 0, plus the number of
\* story evaluations that have returned.
C21_CounterCountsEvaluations ==
    /\ LiveIteration = Len(eval_log)
    /\ pc \in IterationPcs => Len(select_log) = iteration + 1
    /\ pc \notin (IterationPcs \cup {"failed"}) => Len(select_log) = LiveIteration

C21_Witness ==
    /\ pc = "loop"
    /\ iteration = 2
    /\ Len(eval_log) = 2
    /\ eval_log[1].outputs = 1
    /\ eval_log[2].outputs = 2
    /\ Len(exec_log) = 3

\* Some iteration selected Story i and its evaluation returned a complete
\* verdict.
JudgedComplete(i) ==
    \E j \in 1..Len(eval_log) :
        /\ select_log[j].story = i
        /\ eval_log[j].story = i
        /\ eval_log[j].is_complete

\* C22: a Story is completed only if an iteration that selected it executed
\* every task of its batch to completed and the story evaluation then returned
\* is_complete = true; a failure inside an iteration leaves the Story of that
\* iteration not completed and the counter not advanced for it.
C22_CompletedOnlyByFullIteration ==
    /\ \A i \in 1..Len(PlanStories) :
            PlanStories[i].status = "completed" => JudgedComplete(i)
    /\ pc = "evaluate_story" =>
            /\ Len(call.task_outputs) = Len(current_tasks)
            /\ \A t \in 1..Len(current_tasks) : current_tasks[t].status = "completed"
    /\ (pc = "failed" /\ Len(select_log) > Len(eval_log)) =>
            /\ prd.stories[select_log[Len(select_log)].story].status = "in_progress"
            /\ iteration = Len(eval_log)
            /\ iteration = select_log[Len(select_log)].iteration

C22_Witness ==
    /\ pc = "failed"
    /\ Len(select_log) = 2
    /\ Len(eval_log) = 1
    /\ prd.stories[1].status = "completed"
    /\ prd.stories[2].status = "in_progress"
    /\ Len(task_outputs) = 1
    /\ Len(current_tasks) = 2

IsPrefix(a, b) == Len(a) <= Len(b) /\ \A i \in 1..Len(a) : a[i] = b[i]

C24_TranscriptAppendOnly ==
    [][/\ IsPrefix(LiveHistory, LiveHistory')
       /\ Len(LiveHistory') = Len(exec_log')
       /\ \A k \in 1..Len(LiveHistory') :
            LiveHistory'[k] = [role |-> "assistant", content |-> exec_log'[k]]
       /\ Len(exec_log') = Len(exec_log) => LiveHistory' = LiveHistory
       /\ Len(exec_log') # Len(exec_log) =>
            /\ pc = "execute_task"
            /\ Len(LiveHistory') = Len(LiveHistory) + 1]_vars

C24_Witness ==
    /\ pc = "execute_task"
    /\ Len(history) = 4
    /\ history[1].content = exec_log[1]
    /\ history[4].content = exec_log[4]
    /\ Len(call.history) = 3
    /\ input.current_iteration = 1

----------------------------------------------------------------------------
(* The tasks of one iteration *)

TasksInProgress == { t \in 1..Len(current_tasks) : current_tasks[t].status = "in_progress" }

\* C25: the tasks of an iteration are executed one after the other: at most
\* one task is in_progress, while it is executed every task before it is
\* completed and every task after it pending, and the execute_task call for
\* task i is made once the response of task i-1 is in the transcript, so that
\* its window ends with that response.
C25_TasksInSequence ==
    /\ Cardinality(TasksInProgress) <= 1
    /\ pc = "execute_task" =>
        /\ task_i \in 0..(Len(current_tasks) - 1)
        /\ TasksInProgress = {task_i + 1}
        /\ \A t \in 1..task_i : current_tasks[t].status = "completed"
        /\ \A t \in (task_i + 2)..Len(current_tasks) : current_tasks[t].status = "pending"
        /\ call.task_index = task_i
        /\ call.task_content = current_tasks[task_i + 1].content
        /\ Len(task_outputs) = task_i
        /\ task_i > 0 =>
            /\ Len(history) >= 1
            /\ history[Len(history)].content = task_outputs[task_i]
            /\ Len(call.history) >= 1
            /\ call.history[Len(call.history)] = history[Len(history)]

C25_Witness ==
    /\ pc = "execute_task"
    /\ Len(current_tasks) = 2
    /\ task_i = 1
    /\ current_tasks[1].status = "completed"
    /\ current_tasks[2].status = "in_progress"
    /\ call.history[Len(call.history)].content = task_outputs[1]
    /\ Len(eval_log) = 1

----------------------------------------------------------------------------
(* The plan and the continuation *)

PlanPresent == IF pc = "start" THEN input.prd.present ELSE prd.present

\* C26: the plan is generated once per run, before the first iteration:
\* generate_prd is called only by an execution whose input carries no plan,
\* with no iteration made; once there is a plan, no step calls generate_prd or
\* changes the number, the order or the text of its Stories, and every
\* iteration works on a Story of that plan.
C26_PlanGeneratedOnce ==
    [][/\ (pc' = "generate_prd" /\ pc # "generate_prd") =>
            /\ pc = "start"
            /\ ~input.prd.present
            /\ input.current_iteration = 0
            /\ select_log = <<>>
            /\ eval_log = <<>>
       /\ PlanPresent =>
            /\ PlanPresent'
            /\ pc' # "generate_prd"
            /\ Len(PlanStories') = Len(PlanStories)
            /\ \A i \in 1..Len(PlanStories) :
                /\ PlanStories'[i].id = PlanStories[i].id
                /\ PlanStories'[i].title = PlanStories[i].title
                /\ PlanStories'[i].description = PlanStories[i].description
       /\ pc \in IterationPcs => prd.present]_vars

C26_Witness ==
    /\ pc = "generate_tasks"
    /\ input.prd.present
    /\ input.current_iteration = 1
    /\ Len(select_log) = 2
    /\ Len(prd.stories) = 2
    /\ prd.stories[1].status = "completed"

\* C27: a hand-off to a continuation happens only at the top of the loop,
\* before a Story is selected: no call is in flight, no task of a batch is
\* left to execute, every iteration begun has been evaluated, and the counter
\* carried is the number of iterations evaluated.
C27_HandOffAtIterationBoundary ==
    [][(pc' = "start" /\ pc # "start") =>
        /\ pc = "loop"
        /\ LoopCondition(iteration, input.max_iterations)
        /\ call = NoCall
        /\ attempt = 0
        /\ \A t \in 1..Len(current_tasks) : current_tasks[t].status = "completed"
        /\ Len(task_outputs) = Len(current_tasks)
        /\ Len(select_log) = Len(eval_log)
        /\ iteration = Len(eval_log)
        /\ input'.current_iteration = Len(eval_log)]_vars

C27_Witness ==
    /\ pc = "start"
    /\ input.current_iteration = 1
    /\ Len(eval_log) = 1
    /\ Len(exec_log) = 2
    /\ input.prd.stories[1].status = "in_progress"
    /\ call = NoCall

\* C28: the state an execution restores from its input is a copy: what run()
\* then does to its transcript and to its plan (Story status and
\* completion_summary) leaves the conversation_history and the prd of the
\* input it was started from as they were.
C28_InputNotAliased ==
    [][(pc # "start" /\ pc' # "start") =>
        /\ input'.conversation_history = input.conversation_history
        /\ input'.prd = input.prd]_vars

----------------------------------------------------------------------------
(* Continuation and the results of the calls *)

\* What the results of the calls made so far determine, whatever the
\* hand-offs: the transcript, the progress summary and the status of a Story.
TranscriptOfResults ==
    [k \in 1..Len(exec_log) |-> [role |-> "assistant", content |-> exec_log[k]]]

ProgressOfResults ==
    IF eval_log = <<>> THEN <<>> ELSE eval_log[Len(eval_log)].progress

StatusOfResults(i) ==
    IF JudgedComplete(i) THEN "completed"
    ELSE IF \E j \in 1..Len(select_log) : select_log[j].story = i THEN "in_progress"
    ELSE "pending"

\* C30: continuation is transparent: in every execution of a run, resumed
\* from a hand-off or not, the counter, the transcript, the progress summary
\* and the status of every Story are those the results of the calls made so
\* far determine; the generate_tasks, execute_task (its window included),
\* evaluate_story_completion and evaluate_overall_completion calls and the
\* output are built from them, and the configuration never changes.
C30_ContinuationTransparent ==
    [][/\ input'.prompt = input.prompt
       /\ input'.completion_promise = input.completion_promise
       /\ input'.max_iterations = input.max_iterations
       /\ input'.model = input.model
       /\ input'.history_window_size = input.history_window_size
       /\ LiveIteration' = Len(eval_log')
       /\ LiveHistory' = TranscriptOfResults'
       /\ LiveProgress' = ProgressOfResults'
       /\ \A i \in 1..Len(PlanStories') : PlanStories'[i].status = StatusOfResults(i)'
       /\ pc' # "start" => history_window_size' = input'.history_window_size
       /\ pc' = "generate_tasks" =>
            /\ call'.iteration = Len(eval_log')
            /\ call'.progress_summary = ProgressOfResults'
            /\ call'.story = PlanStories'[select_log'[Len(select_log')].story]
       /\ pc' = "execute_task" =>
            /\ call'.iteration = Len(eval_log')
            /\ call'.history =
                    RollingHistory(TranscriptOfResults', input'.history_window_size)
            /\ call'.task_content = current_tasks'[task_i' + 1].content
       /\ pc' = "evaluate_story" =>
            /\ call'.progress_summary = ProgressOfResults'
            /\ call'.task_outputs =
                    [k \in 1..Len(current_tasks') |->
                        exec_log'[Len(exec_log') - Len(current_tasks') + k]]
       /\ pc' = "evaluate_overall" =>
            \A i \in 1..Len(call'.prd.stories) :
                call'.prd.stories[i].status = StatusOfResults(i)'
       /\ pc' = "done" =>
            /\ result'.iterations_used = Len(eval_log')
            /\ ~result'.completed => result'.final_response = ProgressOfResults']_vars

C30_Witness ==
    /\ pc = "done"
    /\ input.current_iteration = 2
    /\ Len(input.conversation_history) = 3
    /\ Len(exec_log) = 4
    /\ input.prd.present
    /\ result.completed = TRUE
    /\ result.iterations_used = 3

----------------------------------------------------------------------------
(* The output, the budget and the empty plan *)

\* C31: in every output, completion_detected = true implies completed =
\* true: completed = false with completion_detected = true is never returned,
\* whatever text the evaluators return.
C31_DetectedImpliesCompleted ==
    /\ result.completion_detected => result.completed
    /\ pc = "done" => (result.completion_detected => result.completed)
    /\ pc # "done" => result = NoResult

C31_Witness ==
    /\ pc = "done"
    /\ result.completed = FALSE
    /\ result.completion_detected = FALSE
    /\ result.iterations_used = 2
    /\ HasExactTag(result.final_response, input.completion_promise)

\* C32: for a run started at iteration 0 with max_iterations = N >= 0, the
\* counter never decreases, grows by 1 at a time and never exceeds N, over
\* all the executions of the run: a continuation does not reset it; every
\* output has 0 <= iterations_used <= N.
C32_CounterWithinBudget ==
    [][input.max_iterations >= 0 =>
        /\ LiveIteration \in 0..input.max_iterations
        /\ LiveIteration' \in {LiveIteration, LiveIteration + 1}
        /\ LiveIteration' <= input'.max_iterations
        /\ input'.max_iterations = input.max_iterations
        /\ pc' = "done" => result'.iterations_used \in 0..input.max_iterations]_vars

C32_Witness ==
    /\ pc = "done"
    /\ input.max_iterations = 3
    /\ input.current_iteration = 2
    /\ result.iterations_used = 3
    /\ result.completed = FALSE

\* C33: when generate_prd returns a plan of zero Stories the run ends at once
\* with completed = false, completion_detected = false and iterations_used =
\* 0, with no call to generate_tasks, execute_task, evaluate_story_completion
\* or evaluate_overall_completion, whatever max_iterations is.
C33_EmptyPlanEndsAtOnce ==
    (PlanPresent /\ PlanStories = <<>>) =>
        /\ pc \in {"start", "loop", "finish", "done"}
        /\ call = NoCall
        /\ select_log = <<>>
        /\ exec_log = <<>>
        /\ eval_log = <<>>
        /\ overall_count = 0
        /\ LiveIteration = 0
        /\ pc = "done" =>
            result = [completed |-> FALSE, iterations_used |-> 0,
                      final_response |-> <<>>, completion_detected |-> FALSE]

C33_Witness ==
    /\ pc = "done"
    /\ prd.present
    /\ prd.stories = <<>>
    /\ input.max_iterations = 3
    /\ result.completed = FALSE
    /\ result.iterations_used = 0
    /\ overall_count = 0

\* C35: an iteration changes at most the Story it selected: no step changes
\* another Story, or the number or order of the Stories; and an evaluation
\* that returns an incomplete verdict leaves the selected Story as it was,
\* in_progress and with its completion_summary unchanged.
C35_OnlySelectedStoryChanges ==
    [][PlanPresent =>
        /\ Len(PlanStories') = Len(PlanStories)
        /\ \A i \in 1..Len(PlanStories) :
            /\ PlanStories'[i].id = PlanStories[i].id
            /\ PlanStories'[i] # PlanStories[i] =>
                    /\ i = current_story'
                    /\ pc \in {"loop", "evaluate_story"}
        /\ (Len(eval_log') > Len(eval_log)
                /\ ~eval_log'[Len(eval_log')].is_complete) =>
            /\ PlanStories' = PlanStories
            /\ PlanStories'[current_story].status = "in_progress"]_vars

C35_Witness ==
    /\ pc = "loop"
    /\ Len(prd.stories) = 2
    /\ Len(eval_log) = 3
    /\ eval_log[2].story = 2
    /\ ~eval_log[2].is_complete
    /\ eval_log[3].is_complete
    /\ prd.stories[1].status = "completed"
    /\ prd.stories[2].status = "completed"

----------------------------------------------------------------------------
(* What get_current_story shows *)

\* C34: answered while a call is in flight, get_current_story returns None
\* (no plan yet, or every Story completed) or a Story whose status is
\* in_progress, never a pending or a completed one.
C34_CurrentStoryIsInProgress ==
    /\ pc \in AwaitPcs =>
        \/ QueryAnswer("get_current_story") = <<>>
        \/ /\ Len(QueryAnswer("get_current_story")) = 1
           /\ QueryAnswer("get_current_story")[1].status = "in_progress"
           /\ QueryAnswer("get_current_story")[1] = prd.stories[current_story]
    /\ (pc \in AwaitPcs /\ fn_args = <<"get_current_story">>) =>
        /\ fn_result = <<QueryAnswer("get_current_story")>>
        /\ fn_result[1] = <<>> <=>
                (~prd.present \/ \A i \in 1..Len(prd.stories) :
                                    prd.stories[i].status = "completed")

C34_Witness ==
    /\ pc = "execute_task"
    /\ fn_args = <<"get_current_story">>
    /\ Len(fn_result[1]) = 1
    /\ fn_result[1][1].status = "in_progress"
    /\ fn_result[1][1].id = "story-2"
    /\ prd.stories[1].status = "completed"

----------------------------------------------------------------------------
(* Termination: the run under a host that keeps it going. Every attempt of *)
(* a call returns or fails and the worker takes the step that follows, so  *)
(* a step that can be taken is taken in the end.                           *)

MaxLiveIterations == 2

InitLive ==
    /\ Init
    /\ input.max_iterations \in -1..MaxLiveIterations

SpecLive == InitLive /\ [][Next]_vars /\ WF_vars(Next)

Terminated == pc \in {"done", "failed"}

\* C36: a run ends, with an output or with the failure of a call, unless the
\* host suggests continuation again and again for ever; and the number of
\* iterations begun is at most max_iterations minus the starting iteration, 0.
C36_RunTerminates ==
    /\ [](Len(select_log) <= Max(input.max_iterations, 0))
    /\ ([]<><<ContinueAsNew>>_vars) \/ <>Terminated

C36_Witness ==
    /\ pc = "done"
    /\ input.max_iterations = 2
    /\ input.current_iteration = 1
    /\ Len(select_log) = 2
    /\ Len(exec_log) = 4
    /\ result.iterations_used = 2

====
